---- MODULE Spec2Model ----
(***************************************************************************)
(* Report / expense workflow of the expense back office: createReport,     *)
(* getReport (event auto-creation), updateReport, updateApproval and       *)
(* reimburseReport of the user controller, over the Expense, Report,       *)
(* Notification and Deduction collections.  Spec runs each handler as one   *)
(* step; SpecSteps runs createReport, updateApproval and reimburseReport   *)
(* await by await, for the requests held in "calls".                       *)
(*                                                                         *)
(* Strings that the code transforms (category titles, Rep# labels) are     *)
(* sequences of character codes, so that toLowerCase, toString and         *)
(* padStart are computed and not assumed.                                  *)
(***************************************************************************)
EXTENDS Integers, Sequences, FiniteSets, Bags

VARIABLES expenses, reports, notifications, deductions, calls, transactions, wallet,
          listed

vars ==
  <<expenses, reports, notifications, deductions, calls, transactions, wallet, listed>>

(***************************************************************************)
(* Bounds of the model.                                                    *)
(***************************************************************************)
MaxReports == 2
MaxLen == 2
MaxReimbursements == 1
MaxLabelled == 1000
MaxCalls == 2
MaxListed == 25
MaxLedger == 1
MaxPage == 4
\* listController serves ten documents a page.
PageSize == 10

(***************************************************************************)
(* Generic helpers.                                                        *)
(***************************************************************************)
Range(s) == {s[i] : i \in DOMAIN s}

Min(S) == CHOOSE x \in S : \A y \in S : x <= y

RECURSIVE SortedSeq(_)
SortedSeq(S) == IF S = {} THEN <<>> ELSE <<Min(S)>> \o SortedSeq(S \ {Min(S)})

RECURSIVE SumSeq(_)
SumSeq(s) == IF s = <<>> THEN 0 ELSE Head(s) + SumSeq(Tail(s))

SeqsUpTo(S, n) == UNION {[1..k -> S] : k \in 0..n}

(***************************************************************************)
(* Character strings.                                                      *)
(***************************************************************************)
Travel == <<84, 114, 97, 118, 101, 108>>
travel == <<116, 114, 97, 118, 101, 108>>
Hotel == <<72, 111, 116, 101, 108>>
Misc == <<77, 105, 115, 99>>

ToLowerCase(s) == [i \in DOMAIN s |-> IF s[i] \in 65..90 THEN s[i] + 32 ELSE s[i]]

RECURSIVE NumberToString(_)
NumberToString(n) == IF n < 10 THEN <<48 + n>> ELSE NumberToString(n \div 10) \o <<48 + (n % 10)>>

PadStartNone(s, len, ch) == s

RECURSIVE PadStart(_, _, _)
PadStart(s, len, ch) == IF Len(s) >= len THEN s ELSE PadStart(<<ch>> \o s, len, ch)

Undefined == <<>>

ReportLabel(reportCount) == <<82, 101, 112, 35>> \o PadStart(NumberToString(reportCount + 1), 3, 48)

(***************************************************************************)
(* Fixtures: the acting users, the submitter's tier, the events, and the   *)
(* expense catalogs the ledger may start with.                             *)
(***************************************************************************)
Submitter == "u1"
ApproverOf(u) == "a1"
FinanceUser == "f1"

Tier ==
  [ categories |-> << [title |-> Travel, maxAmount |-> 200, status |-> TRUE],
                      [title |-> Hotel, maxAmount |-> 100, status |-> FALSE] >>,
    totalAmount |-> 100 ]

NoEvent == "none"
\* evA lists the submitter among its staff, evU does not.
Events ==
  [evA |-> [type |-> "Admin", staffs |-> {"u1"}],
   evU |-> [type |-> "User", staffs |-> {"a1"}]]
EventIds == DOMAIN Events
EventInputs == EventIds \cup {"evX"}

Catalogs ==
  { << [category |-> Travel, amount |-> 120],
       [category |-> Travel, amount |-> 90] >>,
    << [category |-> Travel, amount |-> 120],
       [category |-> travel, amount |-> 90] >>,
    << [category |-> Hotel, amount |-> 50],
       [category |-> Misc, amount |-> 50] >> }

ExpenseIds == 1..2
ReportIds == 1..(MaxReports + 1)
ExpenseLists == SeqsUpTo(ExpenseIds, MaxLen)
\* The lists a report is submitted or patched with: no repeats, ascending.
ReportLists ==
  {l \in ExpenseLists : \A i \in 1..(Len(l) - 1) : l[i] < l[i + 1]}
\* req.body.amount: absent, 0 or 50.
Amounts == {Undefined, <<0>>, <<50>>}
Reasons == {"r1"}
ReportDates == {TRUE}

DefaultExpenseStatus == "drafted"
DefaultReportStatus == "pending"

Resp(code, msg) == [code |-> code, msg |-> msg]

\* What a handler leaves behind: the four collections and its response.
Out(e, r, n, d, resp) ==
  [expenses |-> e, reports |-> r, notifications |-> n, deductions |-> d, resp |-> resp]

NoWrite(resp) == Out(expenses, reports, notifications, deductions, resp)

Apply(out) ==
  /\ expenses' = out.expenses
  /\ reports' = out.reports
  /\ notifications' = out.notifications
  /\ deductions' = out.deductions

\* Expense.updateMany({ _id: { $in: ids } }, { status })
UpdateMany(exps, ids, status) ==
  [e \in DOMAIN exps |-> IF e \in ids THEN [exps[e] EXCEPT !.status = status] ELSE exps[e]]

\* Notification.create({ content, user, status })
Notify(bag, content, user, status) ==
  bag (+) SetToBag({[content |-> content, user |-> user, status |-> status]})

\* The requests being served: one slot per concurrent request.
Calls == 1..MaxCalls
Idle == [op |-> "idle"]

\* No wallet has been asked for.
NoWallet == [code |-> 0]

\* No list has been asked for.
NoList == [code |-> 0, data |-> <<>>]

Init ==
  /\ calls = [p \in Calls |-> Idle]
  /\ transactions = <<>>
  /\ wallet = NoWallet
  /\ listed = NoList
  /\ \E c \in Catalogs :
       expenses = [e \in ExpenseIds |->
                     [category |-> c[e].category, amount |-> c[e].amount,
                      status |-> DefaultExpenseStatus]]
  /\ reports = <<>>
  /\ notifications = EmptyBag
  /\ deductions = EmptyBag

(***************************************************************************)
(* createReport                                                            *)
(***************************************************************************)
\* Expense.find({ _id: { $in: expenseIds } }): the stored documents, once each.
FindExpenses(expenseIds) == SortedSeq(Range(expenseIds) \cap DOMAIN expenses)

AmountOf(expenseIds) ==
  SumSeq([i \in DOMAIN FindExpenses(expenseIds) |-> expenses[FindExpenses(expenseIds)[i]].amount])

AlreadyMapped(e) == expenses[e].status = "mapped"

\* categoryTotals[expense.category] += expense.amount, keys in insertion order.
AddCategoryTotal(totals, category, amount) ==
  IF \E i \in DOMAIN totals : totals[i].title = category
    THEN [i \in DOMAIN totals |->
            IF totals[i].title = category
              THEN [totals[i] EXCEPT !.value = @ + amount]
              ELSE totals[i]]
    ELSE Append(totals, [title |-> category, value |-> amount])

RECURSIVE CategoryTotals(_)
CategoryTotals(found) ==
  IF found = <<>> THEN <<>>
  ELSE AddCategoryTotal(CategoryTotals(SubSeq(found, 1, Len(found) - 1)),
                        expenses[found[Len(found)]].category,
                        expenses[found[Len(found)]].amount)

\* user.tier.categories.find(cat => cat.title.toLowerCase() === lowerCaseTitle)
FindTierCategory(title) ==
  LET hits == {i \in DOMAIN Tier.categories :
                 ToLowerCase(Tier.categories[i].title) = ToLowerCase(title)}
  IN IF hits = {} THEN <<>> ELSE <<Tier.categories[Min(hits)]>>

ExceedsMaxAmount(value, tierCategory) == value > tierCategory.maxAmount

CategoryEntryCheck(entry) ==
  LET cat == FindTierCategory(entry.title)
  IN IF cat = <<>> THEN Resp(400, "category not found")
     ELSE IF cat[1].status = FALSE THEN Resp(400, "category disabled")
     ELSE IF ExceedsMaxAmount(entry.value, cat[1]) THEN Resp(400, "category exceeds")
     ELSE Resp(200, "ok")

\* The first entry of categoryTotals that fails decides the response.
CategoryCheck(totals) ==
  LET bad == {i \in DOMAIN totals : CategoryEntryCheck(totals[i]).code # 200}
  IN IF bad = {} THEN Resp(200, "ok") ELSE CategoryEntryCheck(totals[Min(bad)])

\* Report.findOne({expenses: {$in: expenseIds}, status: {$in: [approved, reimbursed]}})
ExistingReport(expenseIds) ==
  \E r \in DOMAIN reports :
    /\ Range(reports[r].expenses) \cap Range(expenseIds) # {}
    /\ reports[r].status \in {"approved", "reimbursed"}

\* Report.find({reportDate in the month, status: {$in: [approved, reimbursed]}})
ExistingReports ==
  SortedSeq({r \in DOMAIN reports :
               reports[r].inMonth /\ reports[r].status \in {"approved", "reimbursed"}})

ExistingTotalAmount ==
  SumSeq([i \in DOMAIN ExistingReports |-> AmountOf(reports[ExistingReports[i]].expenses)])

TierLimitExceeded(expenseIds) == ExistingTotalAmount > Tier.totalAmount

AdminEventAny(event) == TRUE
AdminEvent(event) == Events[event].type = "Admin"

\* The checks that follow the loop over the fetched expenses.
PolicyResponse(expenseIds) ==
  IF CategoryCheck(CategoryTotals(FindExpenses(expenseIds))).code # 200
    THEN CategoryCheck(CategoryTotals(FindExpenses(expenseIds)))
  ELSE IF ExistingReport(expenseIds) THEN Resp(400, "already reported")
  ELSE IF TierLimitExceeded(expenseIds) THEN Resp(400, "tier limit")
  ELSE Resp(200, "created")

CreateReportResponse(expenseIds, event) ==
  IF expenseIds = <<>> THEN Resp(400, "expenses required")
  ELSE IF event # NoEvent /\ event \notin EventIds THEN Resp(500, "internal")
  ELSE IF event # NoEvent /\ AdminEvent(event) THEN Resp(200, "created")
  ELSE IF \E e \in Range(FindExpenses(expenseIds)) : AlreadyMapped(e)
    THEN Resp(400, "already mapped")
  ELSE PolicyResponse(expenseIds)

NewReport(user, expenseIds, event, inMonth) ==
  [user |-> user, event |-> event, expenses |-> expenseIds,
   status |-> DefaultReportStatus, reportId |-> ReportLabel(Len(reports)),
   reason |-> <<>>, approver |-> "none", reimburser |-> "none", inMonth |-> inMonth]

CreateNewReportSubmitterOnly(exps, user, expenseIds, event, inMonth) ==
  Out(exps,
      Append(reports, NewReport(user, expenseIds, event, inMonth)),
      Notify(notifications, Len(reports) + 1, user, DefaultReportStatus),
      deductions,
      Resp(200, "created"))

CreateNewReport(exps, user, expenseIds, event, inMonth) ==
  Out(exps,
      Append(reports, NewReport(user, expenseIds, event, inMonth)),
      Notify(Notify(notifications, Len(reports) + 1, user, DefaultReportStatus),
             Len(reports) + 1, ApproverOf(user), DefaultReportStatus),
      deductions,
      Resp(200, "created"))

CreateReportOutMapFirst(user, expenseIds, event, inMonth) ==
  IF CreateReportResponse(expenseIds, event).code = 200
    THEN CreateNewReport(UpdateMany(expenses, Range(expenseIds), "mapped"),
                         user, expenseIds, event, inMonth)
    ELSE Out(UpdateMany(expenses, Range(expenseIds), "mapped"), reports,
             notifications, deductions, CreateReportResponse(expenseIds, event))

CreateReportOut(user, expenseIds, event, inMonth) ==
  IF CreateReportResponse(expenseIds, event).code = 200
    THEN CreateNewReport(UpdateMany(expenses, Range(expenseIds), "mapped"),
                         user, expenseIds, event, inMonth)
    ELSE NoWrite(CreateReportResponse(expenseIds, event))

CreateReport(expenseIds, event, inMonth) ==
  /\ Len(reports) < MaxReports
  /\ Apply(CreateReportOut(Submitter, expenseIds, event, inMonth))
  /\ UNCHANGED <<calls, transactions, wallet, listed>>

(***************************************************************************)
(* getReport: its only write is the drafted report it creates for an       *)
(* event that has none yet.                                                *)
(***************************************************************************)
EventReportNone(event, user) == {}
EventReport(event, user) ==
  {r \in DOMAIN reports : reports[r].event = event /\ reports[r].user = user}

DraftedEventReport(user, event) ==
  [user |-> user, event |-> event, expenses |-> <<>>, status |-> "drafted",
   reportId |-> Undefined, reason |-> <<>>, approver |-> "none",
   reimburser |-> "none", inMonth |-> TRUE]

\* Event.findOne({ _id: id, staffs: { $in: [user] } }) finds the event.
StaffEvent(event, user) == event \in EventIds /\ user \in Events[event].staffs

GetEventReportOut(user, event) ==
  IF EventReport(event, user) # {} THEN NoWrite(Resp(200, "found"))
  ELSE IF ~StaffEvent(event, user) THEN NoWrite(Resp(500, "internal"))
  ELSE Out(expenses, Append(reports, DraftedEventReport(user, event)),
           notifications, deductions, Resp(200, "found"))

GetReportOut(user, id) ==
  IF id \in DOMAIN reports /\ reports[id].user = user
    THEN NoWrite(Resp(200, "found"))
    ELSE NoWrite(Resp(404, "report not found"))

GetReport(event) ==
  /\ Len(reports) < MaxReports
  /\ Apply(GetEventReportOut(Submitter, event))
  /\ UNCHANGED <<calls, transactions, wallet, listed>>

(***************************************************************************)
(* updateReport: the patch carries an expense list or none.                *)
(***************************************************************************)
ExpensesOnlyInRequest(reportExpenses, requestExpenses) ==
  {e \in Range(requestExpenses) : e \notin Range(reportExpenses)}

ExpensesOnlyInReport(reportExpenses, requestExpenses) ==
  {e \in Range(reportExpenses) : e \notin Range(requestExpenses)}

\* The reason histories a patch may carry: req.body goes to findByIdAndUpdate
\* as it is, so a patch with a reason field replaces the stored history.
PatchReasons == {Undefined, << <<>> >>, << <<"r2">> >>}

UpdateReportOut(id, hasExpenses, patchExpenses, patchReason) ==
  IF id \notin DOMAIN reports THEN NoWrite(Resp(404, "report not found"))
  ELSE LET reportExpenses == reports[id].expenses
           requestExpenses == IF hasExpenses THEN patchExpenses ELSE <<>>
           onlyInRequest == ExpensesOnlyInRequest(reportExpenses, requestExpenses)
           onlyInReport == ExpensesOnlyInReport(reportExpenses, requestExpenses)
       IN Out(IF requestExpenses # <<>>
                THEN UpdateMany(UpdateMany(expenses, onlyInRequest, "mapped"),
                                onlyInReport, "draft")
                ELSE expenses,
              [reports EXCEPT
                 ![id].expenses = IF hasExpenses THEN patchExpenses ELSE @,
                 ![id].reason = IF patchReason # Undefined THEN patchReason[1] ELSE @,
                 ![id].reportId = IF @ = Undefined THEN ReportLabel(Len(reports)) ELSE @],
              notifications, deductions, Resp(200, "updated"))

UpdateReport(id, hasExpenses, patchExpenses, patchReason) ==
  /\ id \in ReportIds
  /\ Apply(UpdateReportOut(id, hasExpenses, patchExpenses, patchReason))
  /\ UNCHANGED <<calls, transactions, wallet, listed>>

(***************************************************************************)
(* updateApproval                                                          *)
(***************************************************************************)
ApprovalAlreadyDoneUnlessRejected(report) == report.status \notin {"pending", "rejected"}
ApprovalAlreadyDone(report) == report.status # "pending"

ExpensesDoNotMatch(report, supplied) ==
  \/ Len(report.expenses) # Len(supplied)
  \/ ~ \A i \in DOMAIN supplied : supplied[i] \in Range(report.expenses)

UpdateApprovalResponse(id, action, supplied) ==
  IF supplied = <<>> THEN Resp(400, "expenses required")
  ELSE IF id \notin DOMAIN reports THEN Resp(404, "approval not found")
  ELSE IF ApprovalAlreadyDone(reports[id]) THEN Resp(404, "already done")
  ELSE IF action = "approve" /\ ExpensesDoNotMatch(reports[id], supplied)
    THEN Resp(400, "expenses do not match")
  ELSE Resp(200, "decided")

NewStatus(action) == IF action = "approve" THEN "approved" ELSE "rejected"

RemainingExpensesNone(report, supplied) == {}
RemainingExpenses(report, supplied) ==
  {e \in Range(report.expenses) : e \notin Range(supplied)}

UpdateApprovalOut(id, action, supplied, reason, actor) ==
  IF UpdateApprovalResponse(id, action, supplied).code # 200
    THEN NoWrite(UpdateApprovalResponse(id, action, supplied))
    ELSE Out(IF action = "approve"
               THEN UpdateMany(expenses, Range(supplied), NewStatus(action))
               ELSE UpdateMany(UpdateMany(expenses, Range(supplied), "rejected"),
                               RemainingExpenses(reports[id], supplied), "approved"),
             [reports EXCEPT ![id].status = NewStatus(action),
                             ![id].approver = actor,
                             ![id].reason = Append(@, reason)],
             Notify(notifications, id, reports[id].user, NewStatus(action)),
             deductions,
             Resp(200, "decided"))

UpdateApproval(id, action, supplied, reason) ==
  /\ id \in ReportIds
  /\ Apply(UpdateApprovalOut(id, action, supplied, reason, ApproverOf(Submitter)))
  /\ UNCHANGED <<calls, transactions, wallet, listed>>

(***************************************************************************)
(* reimburseReport                                                         *)
(***************************************************************************)
DeductNothing(bag, user, amount, actor, report) == bag

\* amount > 0, false for an absent amount
Positive(amount) == amount # Undefined /\ amount[1] > 0

\* Deduction.create({ user, amount, deductBy, deductOn, report, mode: "bank" })
Deduct(bag, user, amount, actor, report) ==
  bag (+) SetToBag({[user |-> user, amount |-> amount, deductBy |-> actor,
                     report |-> report, mode |-> "bank"]})

ReimburseReportOutMarking(id, amount, actor) ==
  IF id \notin DOMAIN reports THEN NoWrite(Resp(400, "report not found"))
  ELSE Out(UpdateMany(expenses, Range(reports[id].expenses), "reimbursed"),
           [reports EXCEPT ![id].status = "reimbursed", ![id].reimburser = actor],
           Notify(notifications, id, reports[id].user, "reimbursed"),
           deductions,
           Resp(200, "reimbursed"))

ReimburseReportOut(id, amount, actor) ==
  IF id \notin DOMAIN reports THEN NoWrite(Resp(400, "report not found"))
  ELSE Out(expenses,
           [reports EXCEPT ![id].status = "reimbursed", ![id].reimburser = actor],
           Notify(notifications, id, reports[id].user, "reimbursed"),
           IF Positive(amount)
             THEN Deduct(deductions, reports[id].user, amount[1], actor, id)
             ELSE deductions,
           Resp(200, "reimbursed"))

\* The number of reimbursements made so far, one notification each.
Reimbursements ==
  BagCardinality([n \in {m \in BagToSet(notifications) : m.status = "reimbursed"} |->
                    notifications[n]])

ReimburseReport(id, amount) ==
  /\ Reimbursements < MaxReimbursements
  /\ Apply(ReimburseReportOut(id, amount, FinanceUser))
  /\ UNCHANGED <<calls, transactions, wallet, listed>>

Next ==
  \/ \E expenseIds \in ReportLists, event \in EventInputs \cup {NoEvent},
        inMonth \in ReportDates :
       CreateReport(expenseIds, event, inMonth)
  \/ \E event \in EventInputs : GetReport(event)
  \/ \E id \in ReportIds, hasExpenses \in BOOLEAN, patchExpenses \in ReportLists :
       UpdateReport(id, hasExpenses, patchExpenses, Undefined)
  \/ \E id \in ReportIds, action \in {"approve", "reject"}, supplied \in ExpenseLists,
        reason \in Reasons :
       UpdateApproval(id, action, supplied, reason)
  \/ \E id \in ReportIds, amount \in Amounts :
       ReimburseReport(id, amount)

Spec == Init /\ [][Next]_vars

(***************************************************************************)
(* The report labels: one submitter files report after report under the    *)
(* Admin event, which refuses no list.                                     *)
(***************************************************************************)
CreateNextReport(expenseIds, event, inMonth) ==
  /\ Len(reports) < MaxLabelled
  /\ Apply(CreateReportOut(Submitter, expenseIds, event, inMonth))
  /\ UNCHANGED <<calls, transactions, wallet, listed>>

NextLabels == \E inMonth \in ReportDates : CreateNextReport(<<1>>, "evA", inMonth)

SpecLabels == Init /\ [][NextLabels]_vars

(***************************************************************************)
(* getWallet: the month's completed advances received by the user, the     *)
(* user's wallet deductions of the month, and their balance.  Dates are    *)
(* day numbers; the current month runs from StartOfMonth to EndOfMonth.    *)
(***************************************************************************)
StartOfMonth == 1
EndOfMonth == 3

\* The Transaction documents a ledger may hold.
TransactionDocs ==
  { [receiver |-> "u1", amount |-> 500, status |-> "completed", createdAt |-> 2],
    [receiver |-> "u1", amount |-> 40, status |-> "completed", createdAt |-> 1],
    [receiver |-> "u1", amount |-> 70, status |-> "pending", createdAt |-> 2],
    [receiver |-> "u1", amount |-> 80, status |-> "cancelled", createdAt |-> 2],
    [receiver |-> "u1", amount |-> 60, status |-> "completed", createdAt |-> 0],
    [receiver |-> "a1", amount |-> 90, status |-> "completed", createdAt |-> 2] }

\* The Deduction documents a ledger may hold besides those of reimburseReport.
DeductionDocs ==
  { [user |-> "u1", amount |-> 120, mode |-> "wallet", status |-> TRUE, deductOn |-> 1],
    [user |-> "u1", amount |-> 30, mode |-> "wallet", status |-> TRUE, deductOn |-> 3],
    [user |-> "u1", amount |-> 25, mode |-> "bank", status |-> TRUE, deductOn |-> 2],
    [user |-> "u1", amount |-> 15, mode |-> "wallet", status |-> FALSE, deductOn |-> 2],
    [user |-> "u1", amount |-> 35, mode |-> "wallet", status |-> TRUE, deductOn |-> 0],
    [user |-> "a1", amount |-> 45, mode |-> "wallet", status |-> TRUE, deductOn |-> 2] }

InMonth(date) == StartOfMonth <= date /\ date <= EndOfMonth

RECURSIVE SelectSeqBy(_, _)
SelectSeqBy(s, keep) ==
  IF s = <<>> THEN <<>>
  ELSE IF Head(s) \in keep THEN <<Head(s)>> \o SelectSeqBy(Tail(s), keep)
  ELSE SelectSeqBy(Tail(s), keep)

AnyStatus(t) == TRUE
\* status: "completed"
Completed(t) == t.status = "completed"

\* transaction.find({createdAt in the month, requestedBy.receiver, status})
Advances(user) ==
  SelectSeqBy(transactions,
              {t \in Range(transactions) :
                 InMonth(t.createdAt) /\ t.receiver = user /\ Completed(t)})

\* Deduction.find({deductOn in the month, mode: "wallet", status: true, user})
WalletDeductionsIn(bag, user) ==
  {d \in BagToSet(bag) :
     d.mode = "wallet" /\ d.status /\ InMonth(d.deductOn) /\ d.user = user}

WalletDeductions(user) == WalletDeductionsIn(deductions, user)

\* The orders in which Deduction.find may return the documents it matches:
\* the collection does not record the order of insertion.
FoundDeductionsIn(bag, user) ==
  LET docs == WalletDeductionsIn(bag, user)
      total == BagCardinality([d \in docs |-> bag[d]])
  IN {s \in [1..total -> docs] :
        \A d \in docs : Cardinality({i \in 1..total : s[i] = d}) = bag[d]}

FoundDeductions(user) == FoundDeductionsIn(deductions, user)

GetWalletOut(user, found) ==
  LET advances == Advances(user)
      totalAmount == SumSeq([i \in DOMAIN advances |-> advances[i].amount])
      totalExpenses == SumSeq([i \in DOMAIN found |-> found[i].amount])
      mappedAdvances == [i \in DOMAIN advances |->
                           [amount |-> advances[i].amount, date |-> advances[i].createdAt,
                            mode |-> "credit"]]
      mappedData == [i \in DOMAIN found |->
                       [amount |-> found[i].amount, date |-> found[i].deductOn,
                        mode |-> "debit"]]
  IN [code |-> 200, totalAmount |-> totalAmount, totalExpenses |-> totalExpenses,
      balanceAmount |-> totalAmount - totalExpenses,
      expenses |-> mappedAdvances \o mappedData]

GetWallet(user) ==
  /\ \E found \in FoundDeductions(user) : wallet' = GetWalletOut(user, found)
  /\ UNCHANGED <<expenses, reports, notifications, deductions, calls, transactions, listed>>

\* The ledgers getWallet is asked about.
InitWallet ==
  /\ \E c \in Catalogs :
       expenses = [e \in ExpenseIds |->
                     [category |-> c[e].category, amount |-> c[e].amount,
                      status |-> DefaultExpenseStatus]]
  /\ reports = <<>>
  /\ notifications = EmptyBag
  /\ calls = [p \in Calls |-> Idle]
  /\ transactions \in SeqsUpTo(TransactionDocs, MaxLen)
  /\ \E docs \in SeqsUpTo(DeductionDocs, MaxLen) :
       deductions = [d \in Range(docs) |-> Cardinality({i \in DOMAIN docs : docs[i] = d})]
  /\ wallet = NoWallet
  /\ listed = NoList

NextWallet == GetWallet(Submitter)

SpecWallet == InitWallet /\ [][NextWallet]_vars

\* A ledger of a few transactions and deductions, on which reports are
\* filed, patched, decided and reimbursed and wallets are asked for.
InitLedger ==
  /\ \E c \in Catalogs :
       expenses = [e \in ExpenseIds |->
                     [category |-> c[e].category, amount |-> c[e].amount,
                      status |-> DefaultExpenseStatus]]
  /\ reports = <<>>
  /\ notifications = EmptyBag
  /\ calls = [p \in Calls |-> Idle]
  /\ transactions \in SeqsUpTo(TransactionDocs, MaxLedger)
  /\ \E docs \in SeqsUpTo(DeductionDocs, MaxLedger) :
       deductions = [d \in Range(docs) |-> Cardinality({i \in DOMAIN docs : docs[i] = d})]
  /\ wallet = NoWallet
  /\ listed = NoList

CreateOnlyReport(expenseIds, event, inMonth) ==
  /\ reports = <<>>
  /\ Apply(CreateReportOut(Submitter, expenseIds, event, inMonth))
  /\ UNCHANGED <<calls, transactions, wallet, listed>>

NextLedger ==
  \/ \E expenseIds \in ReportLists, event \in {NoEvent, "evA"}, inMonth \in ReportDates :
       CreateOnlyReport(expenseIds, event, inMonth)
  \/ \E id \in ReportIds, hasExpenses \in BOOLEAN, patchExpenses \in ReportLists :
       UpdateReport(id, hasExpenses, patchExpenses, Undefined)
  \/ \E id \in ReportIds, action \in {"approve", "reject"}, supplied \in ExpenseLists,
        reason \in Reasons :
       UpdateApproval(id, action, supplied, reason)
  \/ \E id \in ReportIds, amount \in Amounts :
       ReimburseReport(id, amount)
  \/ \E user \in {Submitter, ApproverOf(Submitter)} : GetWallet(user)

SpecLedger == InitLedger /\ [][NextLedger]_vars

(***************************************************************************)
(* listController: one page of the caller's reports, expenses, unread      *)
(* notifications, events or approvals.  A collection is the sequence of    *)
(* its documents in the order of insertion, which is the order a query     *)
(* without a sort stage walks it; createdAt is a document's rank in it.    *)
(***************************************************************************)
ListTypes == {"reports", "expenses", "notifications", "events", "approvals"}
PageNos == 1..MaxPage

\* const skipCount = 10 * (pageNo - 1)
SkipCount(pageNo) == PageSize * (pageNo - 1)

Skip(docs, n) == SubSeq(docs, n + 1, Len(docs))
Limit(docs, n) == SubSeq(docs, 1, IF n < Len(docs) THEN n ELSE Len(docs))

Stamped(ids) == [i \in DOMAIN ids |-> [id |-> ids[i], createdAt |-> i]]
Ids(docs) == [i \in DOMAIN docs |-> docs[i].id]

\* sort({ createdAt: -1 }): the i-th document has i - 1 newer ones.
SortNewestFirst(docs) ==
  [i \in DOMAIN docs |->
     CHOOSE d \in Range(docs) :
       Cardinality({e \in Range(docs) : e.createdAt > d.createdAt}) = i - 1]

\* On documents that carry no createdAt every sort key is equal and the
\* order of the result is unspecified: the order of arrival and its reverse.
SortNoKey(docs) ==
  {docs, [i \in DOMAIN docs |-> docs[Len(docs) + 1 - i]]}

\* Model.find(filter).skip(skipCount).limit(10).sort({ createdAt: -1 }): the
\* query is sent with its three options and the server sorts, skips, limits.
FindPage(docs, pageNo) ==
  Limit(Skip(SortNewestFirst(docs), SkipCount(pageNo)), PageSize)

\* $project drops createdAt; $facet then runs $skip, $limit and $sort in the
\* order written.
FacetPage(docs, pageNo) ==
  SortNoKey(Limit(Skip(docs, SkipCount(pageNo)), PageSize))

\* Report.find({ user })
UserReports(user) ==
  Stamped(SortedSeq({id \in DOMAIN reports : reports[id].user = user}))

\* Expense.find({ user }): the catalogue belongs to the submitter.
ExpensesOf(user) ==
  Stamped(IF user = Submitter THEN SortedSeq(DOMAIN expenses) ELSE <<>>)

\* Notification.find({ user, isRead: false }): nothing marks a notification
\* read, and a user's notifications are created in the order of the reports
\* they are about.
NotificationsOf(user) ==
  Stamped(SortedSeq({n.content : n \in {m \in BagToSet(notifications) : m.user = user}}))

\* Event.find({ staffs: { $in: [user] } })
EventsOf(user) ==
  LET ids == {ev \in EventIds : user \in Events[ev].staffs}
  IN Stamped(IF "evA" \in ids
               THEN <<"evA">> \o (IF "evU" \in ids THEN <<"evU">> ELSE <<>>)
               ELSE IF "evU" \in ids THEN <<"evU">> ELSE <<>>)

\* The reports of the users whose approver is the caller.
ApprovalsOf(user) ==
  Stamped(SortedSeq({id \in DOMAIN reports : ApproverOf(reports[id].user) = user}))

ListResp(docs) == [code |-> 200, data |-> Ids(docs)]

\* The answers listController may give.
ListControllerOuts(user, type, pageNo) ==
  IF type = "reports" THEN {ListResp(FindPage(UserReports(user), pageNo))}
  ELSE IF type = "expenses" THEN {ListResp(FindPage(ExpensesOf(user), pageNo))}
  ELSE IF type = "notifications"
    THEN {ListResp(FindPage(NotificationsOf(user), pageNo))}
  ELSE IF type = "events" THEN {ListResp(FindPage(EventsOf(user), pageNo))}
  ELSE IF type = "approvals"
    THEN IF user # ApproverOf(Submitter) THEN {[code |-> 404, data |-> <<>>]}
         ELSE {ListResp(docs) : docs \in FacetPage(ApprovalsOf(user), pageNo)}
  ELSE {[code |-> 404, data |-> <<>>]}

ListController(user, type, pageNo) ==
  /\ \E out \in ListControllerOuts(user, type, pageNo) : listed' = out
  /\ UNCHANGED <<expenses, reports, notifications, deductions, calls, transactions, wallet>>

CreateListedReport(expenseIds, event, inMonth) ==
  /\ Len(reports) < MaxListed
  /\ Apply(CreateReportOut(Submitter, expenseIds, event, inMonth))
  /\ UNCHANGED <<calls, transactions, wallet, listed>>

NextLists ==
  \/ \E inMonth \in ReportDates : CreateListedReport(<<1>>, "evA", inMonth)
  \/ \E user \in {Submitter, ApproverOf(Submitter)}, type \in ListTypes, pageNo \in PageNos :
       ListController(user, type, pageNo)

SpecLists == Init /\ [][NextLists]_vars

(***************************************************************************)
(* The handlers await by await.  A request occupies a slot of "calls" from *)
(* its first read to its response; between two awaits of one request the   *)
(* other request may run.  The response of a decision stays in its slot    *)
(* until Return; the other handlers free their slot as they answer.        *)
(***************************************************************************)
NoResp == Resp(0, "in flight")

InFlight(op) == Cardinality({p \in Calls : calls[p].op = op})

Free(p) == calls' = [calls EXCEPT ![p] = Idle]

\* A new request takes the first free slot.
FirstFree(p) == calls[p] = Idle /\ \A q \in Calls : q < p => calls[q] # Idle

Respond(p, resp) == calls' = [calls EXCEPT ![p].pc = "done", ![p].resp = resp]

Goto(p, pc) == calls' = [calls EXCEPT ![p].pc = pc]

\* createReport: Report.countDocuments()
CreateReportCount(p, expenseIds, event, inMonth) ==
  /\ FirstFree(p)
  /\ Len(reports) + InFlight("createReport") < MaxReports
  /\ calls' = [calls EXCEPT ![p] =
                 [op |-> "createReport", pc |-> "find", expenseIds |-> expenseIds,
                  event |-> event, inMonth |-> inMonth, reportCount |-> Len(reports),
                  found |-> <<>>]]
  /\ UNCHANGED <<expenses, reports, notifications, deductions>>
  /\ UNCHANGED <<transactions, wallet, listed>>

\* createReport: Expense.find, the documents as they are stored now
CreateReportFind(p) ==
  /\ calls[p].op = "createReport" /\ calls[p].pc = "find"
  /\ calls' = [calls EXCEPT
                 ![p].pc = "create",
                 ![p].found = [i \in DOMAIN FindExpenses(calls[p].expenseIds) |->
                                 expenses[FindExpenses(calls[p].expenseIds)[i]]]]
  /\ UNCHANGED <<expenses, reports, notifications, deductions>>
  /\ UNCHANGED <<transactions, wallet, listed>>

\* The response of createReport when the loop runs over the documents fetched
\* before, and the later queries read the collections as they are now.
CreateReportResponseFound(found, expenseIds, event) ==
  IF expenseIds = <<>> THEN Resp(400, "expenses required")
  ELSE IF event # NoEvent /\ event \notin EventIds THEN Resp(500, "internal")
  ELSE IF event # NoEvent /\ AdminEvent(event) THEN Resp(200, "created")
  ELSE IF \E i \in DOMAIN found : found[i].status = "mapped"
    THEN Resp(400, "already mapped")
  ELSE PolicyResponse(expenseIds)

\* createReport from its checks on: the report is stored under the label
\* computed from the count read before.
CreateReportCreate(p) ==
  /\ calls[p].op = "createReport" /\ calls[p].pc = "create"
  /\ LET resp == CreateReportResponseFound(calls[p].found, calls[p].expenseIds,
                                           calls[p].event)
         out == CreateNewReport(UpdateMany(expenses, Range(calls[p].expenseIds), "mapped"),
                                Submitter, calls[p].expenseIds, calls[p].event,
                                calls[p].inMonth)
     IN /\ Apply(IF resp.code = 200
                   THEN [out EXCEPT !.reports[Len(out.reports)].reportId =
                                      ReportLabel(calls[p].reportCount)]
                   ELSE NoWrite(resp))
        /\ Free(p)
  /\ UNCHANGED <<transactions, wallet, listed>>

\* updateApproval: Report.findById and the checks on what it found.
ApprovalFind(p, id, action, supplied, reason) ==
  /\ FirstFree(p)
  /\ calls' = IF UpdateApprovalResponse(id, action, supplied).code = 200
                THEN [calls EXCEPT ![p] =
                        [op |-> "updateApproval", pc |-> "update", id |-> id,
                         action |-> action, supplied |-> supplied, reason |-> reason,
                         resp |-> NoResp]]
                ELSE calls
  /\ UNCHANGED <<expenses, reports, notifications, deductions>>
  /\ UNCHANGED <<transactions, wallet, listed>>

\* updateApproval: Report.findByIdAndUpdate
ApprovalUpdate(p) ==
  /\ calls[p].op = "updateApproval" /\ calls[p].pc = "update"
  /\ reports' = [reports EXCEPT ![calls[p].id].status = NewStatus(calls[p].action),
                                ![calls[p].id].approver = ApproverOf(Submitter),
                                ![calls[p].id].reason = Append(@, calls[p].reason)]
  /\ Goto(p, "notify")
  /\ UNCHANGED <<expenses, notifications, deductions>>
  /\ UNCHANGED <<transactions, wallet, listed>>

\* updateApproval: Notification.create
ApprovalNotify(p) ==
  /\ calls[p].op = "updateApproval" /\ calls[p].pc = "notify"
  /\ notifications' = Notify(notifications, calls[p].id, reports[calls[p].id].user,
                             NewStatus(calls[p].action))
  /\ Goto(p, "expenses")
  /\ UNCHANGED <<expenses, reports, deductions>>
  /\ UNCHANGED <<transactions, wallet, listed>>

\* updateApproval: Notification.create rejects, and the catch block answers.
ApprovalNotifyFails(p) ==
  /\ calls[p].op = "updateApproval" /\ calls[p].pc = "notify"
  /\ Respond(p, Resp(500, "internal"))
  /\ UNCHANGED <<expenses, reports, notifications, deductions>>
  /\ UNCHANGED <<transactions, wallet, listed>>

\* updateApproval: the Expense.updateMany calls
ApprovalExpenses(p) ==
  /\ calls[p].op = "updateApproval" /\ calls[p].pc = "expenses"
  /\ expenses' =
       IF calls[p].action = "approve"
         THEN UpdateMany(expenses, Range(calls[p].supplied), NewStatus(calls[p].action))
         ELSE UpdateMany(UpdateMany(expenses, Range(calls[p].supplied), "rejected"),
                         RemainingExpenses(reports[calls[p].id], calls[p].supplied),
                         "approved")
  /\ Respond(p, Resp(200, "decided"))
  /\ UNCHANGED <<reports, notifications, deductions>>
  /\ UNCHANGED <<transactions, wallet, listed>>

\* reimburseReport: Report.findById
ReimburseFind(p, id, amount) ==
  /\ FirstFree(p)
  /\ Reimbursements + InFlight("reimburseReport") < MaxReimbursements
  /\ calls' = IF id \in DOMAIN reports
                THEN [calls EXCEPT ![p] =
                        [op |-> "reimburseReport", pc |-> "deduct", id |-> id,
                         amount |-> amount]]
                ELSE calls
  /\ UNCHANGED <<expenses, reports, notifications, deductions>>
  /\ UNCHANGED <<transactions, wallet, listed>>

\* reimburseReport: Deduction.create, when amount > 0
ReimburseDeduct(p) ==
  /\ calls[p].op = "reimburseReport" /\ calls[p].pc = "deduct"
  /\ deductions' = IF Positive(calls[p].amount)
                     THEN Deduct(deductions, reports[calls[p].id].user,
                                 calls[p].amount[1], FinanceUser, calls[p].id)
                     ELSE deductions
  /\ Goto(p, "update")
  /\ UNCHANGED <<expenses, reports, notifications>>
  /\ UNCHANGED <<transactions, wallet, listed>>

\* reimburseReport: Report.findByIdAndUpdate
ReimburseUpdate(p) ==
  /\ calls[p].op = "reimburseReport" /\ calls[p].pc = "update"
  /\ reports' = [reports EXCEPT ![calls[p].id].status = "reimbursed",
                                ![calls[p].id].reimburser = FinanceUser]
  /\ Goto(p, "notify")
  /\ UNCHANGED <<expenses, notifications, deductions>>
  /\ UNCHANGED <<transactions, wallet, listed>>

\* reimburseReport: Notification.create
ReimburseNotify(p) ==
  /\ calls[p].op = "reimburseReport" /\ calls[p].pc = "notify"
  /\ notifications' = Notify(notifications, calls[p].id, reports[calls[p].id].user,
                             "reimbursed")
  /\ Free(p)
  /\ UNCHANGED <<expenses, reports, deductions>>
  /\ UNCHANGED <<transactions, wallet, listed>>

\* The response of the decision is sent and the slot is free again.
Return(p) ==
  /\ calls[p].op = "updateApproval" /\ calls[p].pc = "done"
  /\ Free(p)
  /\ UNCHANGED <<expenses, reports, notifications, deductions>>
  /\ UNCHANGED <<transactions, wallet, listed>>

\* Concurrent createReport requests.
NextCreates ==
  \E p \in Calls :
    \/ \E expenseIds \in ReportLists, event \in {NoEvent, "evA"}, inMonth \in ReportDates :
         CreateReportCount(p, expenseIds, event, inMonth)
    \/ CreateReportFind(p)
    \/ CreateReportCreate(p)

SpecCreates == Init /\ [][NextCreates]_vars

\* The one report the decisions and reimbursements below are about.
CreateFirstReport(expenseIds, inMonth) ==
  /\ reports = <<>>
  /\ Apply(CreateReportOut(Submitter, expenseIds, NoEvent, inMonth))
  /\ UNCHANGED <<calls, transactions, wallet, listed>>

\* Concurrent updateApproval and reimburseReport requests on one report.
NextSteps ==
  \/ \E expenseIds \in ReportLists, inMonth \in ReportDates :
       CreateFirstReport(expenseIds, inMonth)
  \/ \E p \in Calls :
       \/ \E id \in ReportIds, action \in {"approve", "reject"}, supplied \in ExpenseLists,
             reason \in Reasons :
            ApprovalFind(p, id, action, supplied, reason)
       \/ ApprovalUpdate(p)
       \/ ApprovalNotify(p)
       \/ ApprovalNotifyFails(p)
       \/ ApprovalExpenses(p)
       \/ \E id \in ReportIds, amount \in Amounts : ReimburseFind(p, id, amount)
       \/ ReimburseDeduct(p)
       \/ ReimburseUpdate(p)
       \/ ReimburseNotify(p)
       \/ Return(p)

SpecSteps == Init /\ [][NextSteps]_vars

(***************************************************************************)
(* Properties.                                                             *)
(***************************************************************************)
AllEvents == EventInputs \cup {NoEvent}
LaterStatuses == {"mapped", "approved", "rejected", "reimbursed"}
ReportsOf(e) == {r \in DOMAIN reports : e \in Range(reports[r].expenses)}
NonAdmin(event) == event = NoEvent \/ event \notin EventIds \/ ~AdminEvent(event)

AllowedTransition(from, to) ==
  \/ from = to
  \/ from = "pending" /\ to \in {"approved", "rejected"}
  \/ from = "approved" /\ to = "reimbursed"

\* C1: a report's status moves only along pending->approved, pending->rejected
\* and approved->reimbursed; a reimburse of a report that is not approved
\* leaves its status alone.
C1_StatusTransitions ==
  [][\A r \in DOMAIN reports :
       AllowedTransition(reports[r].status, reports'[r].status)]_vars

\* C2: updateApproval on a report that is not pending fails and writes
\* nothing: the report (status, approver, reason history), every expense and
\* the notifications stay as they are.
C2_DecideNonPendingFails ==
  \A id \in DOMAIN reports, action \in {"approve", "reject"},
     supplied \in ExpenseLists, reason \in Reasons :
    reports[id].status # "pending" =>
      LET out == UpdateApprovalOut(id, action, supplied, reason, ApproverOf(Submitter))
      IN /\ out.resp.code # 200
         /\ out.reports = reports
         /\ out.expenses = expenses
         /\ out.notifications = notifications

\* A decided report on which a further decision is answered "already done".
C2_Witness ==
  \E id \in DOMAIN reports :
    /\ reports[id].status \in {"approved", "rejected"}
    /\ Len(reports[id].reason) = 1
    /\ reports[id].expenses # <<>>
    /\ UpdateApprovalOut(id, "reject", reports[id].expenses, "r1",
                         ApproverOf(Submitter)).resp = Resp(404, "already done")

\* C3: an approve succeeds only when the supplied ids, as a set, are the
\* report's stored ids; with any other list it fails and changes no report
\* status and no expense status.
C3_ApproveNeedsSetEquality ==
  \A id \in DOMAIN reports, supplied \in ExpenseLists, reason \in Reasons :
    LET out == UpdateApprovalOut(id, "approve", supplied, reason, ApproverOf(Submitter))
    IN Range(supplied) # Range(reports[id].expenses) =>
         /\ out.resp.code # 200
         /\ out.reports[id].status = reports[id].status
         /\ \A e \in DOMAIN expenses : out.expenses[e].status = expenses[e].status

\* C4: a successful reject of a pending report with a strict subset of its
\* expenses leaves the report rejected, the supplied expenses rejected, the
\* report's other expenses approved, and none of its expenses mapped.
C4_PartialReject ==
  \A id \in DOMAIN reports, supplied \in ExpenseLists, reason \in Reasons :
    LET out == UpdateApprovalOut(id, "reject", supplied, reason, ApproverOf(Submitter))
        stored == Range(reports[id].expenses)
    IN (/\ reports[id].status = "pending"
        /\ Range(supplied) \subseteq stored
        /\ Range(supplied) # stored
        /\ out.resp.code = 200) =>
         /\ out.reports[id].status = "rejected"
         /\ \A e \in Range(supplied) : out.expenses[e].status = "rejected"
         /\ \A e \in stored \ Range(supplied) : out.expenses[e].status = "approved"
         /\ \A e \in stored : out.expenses[e].status # "mapped"

\* A rejected report of which one expense is rejected and another approved.
C4_Witness ==
  \E id \in DOMAIN reports :
    /\ reports[id].status = "rejected"
    /\ notifications[[content |-> id, user |-> reports[id].user, status |-> "rejected"]] = 1
    /\ \E e1, e2 \in Range(reports[id].expenses) :
         expenses[e1].status = "rejected" /\ expenses[e2].status = "approved"

\* A step in which createReport has stored its report, and that report.
CreatedStep ==
  /\ Len(reports') = Len(reports) + 1
  /\ reports'[Len(reports')].status = DefaultReportStatus

Created == reports'[Len(reports')]

\* C5: createReport (here: without an Admin event) accepts no list that holds
\* an expense whose status is mapped, approved, rejected or reimbursed.
C5_LaterStatusRefused ==
  [][(CreatedStep /\ NonAdmin(Created.event)) =>
       \A e \in Range(Created.expenses) : expenses[e].status \notin LaterStatuses]_vars

\* C6: an expense whose status is mapped, approved, rejected or reimbursed is
\* referenced by exactly one report.
C6_ExactlyOneReport ==
  \A e \in DOMAIN expenses :
    expenses[e].status \in LaterStatuses => Cardinality(ReportsOf(e)) = 1

\* C7: while a report stays approved or reimbursed, its expense list does not
\* change and none of its expenses enters another report.
C7_ApprovedReportFrozen ==
  [][\A r \in DOMAIN reports :
       (/\ reports[r].status \in {"approved", "reimbursed"}
        /\ reports'[r].status \in {"approved", "reimbursed"}) =>
         /\ reports'[r].expenses = reports[r].expenses
         /\ \A e \in Range(reports[r].expenses) :
              {q \in DOMAIN reports' : e \in Range(reports'[q].expenses)}
                \subseteq ReportsOf(e)]_vars

\* The submitted expenses whose category is the tier category's title, letter
\* case aside.
CategoryTotal(expenseIds, title) ==
  AmountOf(SortedSeq({e \in Range(expenseIds) \cap DOMAIN expenses :
                        ToLowerCase(expenses[e].category) = ToLowerCase(title)}))

CategoryViolation(expenseIds) ==
  \/ \E i \in DOMAIN Tier.categories :
       CategoryTotal(expenseIds, Tier.categories[i].title) > Tier.categories[i].maxAmount
  \/ \E e \in Range(expenseIds) \cap DOMAIN expenses :
       \/ FindTierCategory(expenses[e].category) = <<>>
       \/ ~FindTierCategory(expenses[e].category)[1].status

\* C8: without an Admin event, createReport accepts no list in which the
\* expenses of some tier category (titles compared without letter case) sum
\* to more than its maxAmount, or in which a category is missing from the
\* tier or disabled.
C8_CategoryLimits ==
  [][(CreatedStep /\ NonAdmin(Created.event)) =>
       ~CategoryViolation(Created.expenses)]_vars

\* C9: without an Admin event, createReport accepts no report whose amount,
\* added to the month's approved and reimbursed total, exceeds the tier's
\* totalAmount.
C9_TierTotalWithNewReport ==
  [][(CreatedStep /\ NonAdmin(Created.event)) =>
       ExistingTotalAmount + AmountOf(Created.expenses) <= Tier.totalAmount]_vars

\* The conditions under which C10 promises success.
Eligible(expenseIds) ==
  /\ expenseIds # <<>>
  /\ \A e \in Range(expenseIds) : expenses[e].status = "drafted"
  /\ ~ExistingReport(expenseIds)
  /\ ~CategoryViolation(expenseIds)
  /\ ExistingTotalAmount + AmountOf(expenseIds) <= Tier.totalAmount

Succeeded(out, expenseIds) ==
  /\ out.resp.code = 200
  /\ Len(out.reports) = Len(reports) + 1
  /\ SubSeq(out.reports, 1, Len(reports)) = reports
  /\ out.reports[Len(out.reports)].expenses = expenseIds
  /\ \A e \in Range(expenseIds) : out.expenses[e].status = "mapped"
  /\ \A e \in DOMAIN expenses \ Range(expenseIds) : out.expenses[e] = expenses[e]
  /\ out.notifications =
       notifications
         (+) SetToBag({[content |-> Len(reports) + 1, user |-> Submitter,
                        status |-> out.reports[Len(out.reports)].status]})
         (+) SetToBag({[content |-> Len(reports) + 1, user |-> ApproverOf(Submitter),
                        status |-> out.reports[Len(out.reports)].status]})

\* C10 as stated: every eligible call succeeds, whatever event id it carries.
C10_EligibleSucceeds ==
  \A expenseIds \in ExpenseLists, event \in AllEvents, inMonth \in ReportDates :
    Eligible(expenseIds) =>
      Succeeded(CreateReportOut(Submitter, expenseIds, event, inMonth), expenseIds)

\* C10 amended: every eligible call whose event id, if any, resolves to an
\* Event succeeds: one report with the submitted expenses, each of them
\* mapped, and two notifications, to the submitter and to the approver.
C10_EligibleResolvedSucceeds ==
  \A expenseIds \in ExpenseLists, event \in EventIds \cup {NoEvent},
     inMonth \in ReportDates :
    Eligible(expenseIds) =>
      Succeeded(CreateReportOut(Submitter, expenseIds, event, inMonth), expenseIds)

\* A report created without an event from an eligible list: pending, its
\* expense mapped, the two notifications present.
C10_Witness ==
  /\ Len(reports) = 1
  /\ reports[1].event = NoEvent
  /\ reports[1].status = "pending"
  /\ reports[1].expenses = <<2>>
  /\ expenses[2].status = "mapped"
  /\ expenses[2].amount <= Tier.totalAmount
  /\ notifications = SetToBag({[content |-> 1, user |-> Submitter, status |-> "pending"],
                               [content |-> 1, user |-> ApproverOf(Submitter),
                                status |-> "pending"]})

\* The outcome of a createReport call with a User event and of the same call
\* with no event differ in nothing but the event the created report carries.
SameOutcome(out, none) ==
  /\ out.resp = none.resp
  /\ out.expenses = none.expenses
  /\ out.notifications = none.notifications
  /\ out.deductions = none.deductions
  /\ Len(out.reports) = Len(none.reports)
  /\ \A i \in DOMAIN out.reports :
       [out.reports[i] EXCEPT !.event = NoEvent] = [none.reports[i] EXCEPT !.event = NoEvent]

\* C11: createReport with a non-empty list skips the already-mapped, category,
\* overlap and tier-total checks exactly when the event id resolves to an Event
\* of type Admin: with an Admin event it maps every listed expense and creates
\* the report with its two notifications; with a User event its outcome is that
\* of the call with no event; with an id that resolves to no Event it creates
\* nothing.
C11_AdminEventSkipsChecks ==
  \A expenseIds \in ReportLists \ {<<>>}, event \in EventInputs, inMonth \in ReportDates :
    LET out == CreateReportOut(Submitter, expenseIds, event, inMonth)
        none == CreateReportOut(Submitter, expenseIds, NoEvent, inMonth)
    IN IF event \notin EventIds
         THEN out.resp.code # 200 /\ out = NoWrite(out.resp)
       ELSE IF Events[event].type = "Admin"
         THEN Succeeded(out, expenseIds)
       ELSE SameOutcome(out, none)

\* A report created under the Admin event although its amount is over the
\* tier's totalAmount, while the same list is refused under the User event.
C11_Witness ==
  \E r \in DOMAIN reports :
    /\ reports[r].event = "evA"
    /\ reports[r].status = "pending"
    /\ reports[r].expenses # <<>>
    /\ \A e \in Range(reports[r].expenses) : expenses[e].status = "mapped"
    /\ ExistingTotalAmount > Tier.totalAmount
    /\ notifications[[content |-> r, user |-> ApproverOf(Submitter), status |-> "pending"]] = 1
    /\ CreateReportOut(Submitter, reports[r].expenses, "evU", TRUE).resp.code = 400

\* C12: a createReport call that fails changes no expense, creates no report
\* and creates no notification.
C12_FailedCreateWritesNothing ==
  \A expenseIds \in ReportLists, event \in AllEvents, inMonth \in ReportDates :
    LET out == CreateReportOut(Submitter, expenseIds, event, inMonth)
    IN out.resp.code # 200 =>
         /\ out.expenses = expenses
         /\ out.reports = reports
         /\ out.notifications = notifications

\* A state in which one call is refused for the tier total and another for an
\* expense that is already mapped.
C12_Witness ==
  /\ reports # <<>>
  /\ \E expenseIds \in ReportLists :
       CreateReportOut(Submitter, expenseIds, NoEvent, TRUE).resp = Resp(400, "tier limit")
  /\ \E expenseIds \in ReportLists :
       CreateReportOut(Submitter, expenseIds, NoEvent, TRUE).resp = Resp(400, "already mapped")

\* The label the claim describes, digit by digit: Rep# and n + 1 in decimal
\* on three digits, or on as many as n + 1 has when it has more.
DecimalDigit(m, k) == 48 + ((m \div (10 ^ k)) % 10)
Width(m) == IF m < 1000 THEN 3 ELSE IF m < 10000 THEN 4 ELSE 5
ExpectedLabel(n) ==
  <<82, 101, 112, 35>> \o [i \in 1..Width(n + 1) |-> DecimalDigit(n + 1, Width(n + 1) - i)]

\* C14: a createReport call that runs when n reports exist labels its report
\* Rep# followed by n + 1 in decimal, zero-padded to at least three digits.
C14_LabelIsCountPlusOne ==
  [][CreatedStep => Created.reportId = ExpectedLabel(Len(reports))]_vars

\* The third report carries Rep#003 and the thousandth Rep#1000.
C14_Witness ==
  /\ Len(reports) = 1000
  /\ reports[3].reportId = <<82, 101, 112, 35, 48, 48, 51>>
  /\ reports[1000].reportId = <<82, 101, 112, 35, 49, 48, 48, 48>>

\* A step in which updateApproval approves report r.
ApprovedStep(r) == reports[r].status = "pending" /\ reports'[r].status = "approved"

\* C16: a successful approve of a pending report leaves the report approved,
\* its reason history one entry longer with the supplied reason last, every
\* expense of the report approved, and one more notification, to the owner.
C16_ApproveEffects ==
  [][\A r \in DOMAIN reports :
       ApprovedStep(r) =>
         /\ \E reason \in Reasons : reports'[r].reason = Append(reports[r].reason, reason)
         /\ \A e \in Range(reports[r].expenses) : expenses'[e].status = "approved"
         /\ notifications' =
              notifications
                (+) SetToBag({[content |-> r, user |-> reports[r].user,
                               status |-> "approved"]})]_vars

\* C17: a successful reimburse creates one Deduction (mode bank, the report's
\* owner, the acting user, the report, the amount) when the amount is above 0
\* and none when it is 0 or absent; a reimburse of a report that does not
\* exist creates no Deduction and no notification.
C17_ReimburseDeductions ==
  \A id \in ReportIds, amount \in Amounts :
    LET out == ReimburseReportOut(id, amount, FinanceUser)
    IN IF id \notin DOMAIN reports
         THEN /\ out.resp.code # 200
              /\ out.deductions = deductions
              /\ out.notifications = notifications
       ELSE IF amount \notin {Undefined, <<0>>}
         THEN /\ out.resp.code = 200
              /\ out.deductions =
                   deductions
                     (+) SetToBag({[user |-> reports[id].user, amount |-> amount[1],
                                    deductBy |-> FinanceUser, report |-> id,
                                    mode |-> "bank"]})
       ELSE out.resp.code = 200 /\ out.deductions = deductions

\* A reimbursed report with its one Deduction of 50.
C17_Witness ==
  \E id \in DOMAIN reports :
    /\ reports[id].status = "reimbursed"
    /\ reports[id].reimburser = FinanceUser
    /\ deductions = SetToBag({[user |-> reports[id].user, amount |-> 50,
                               deductBy |-> FinanceUser, report |-> id, mode |-> "bank"]})

\* The reports stored for an event and a user.
ReportsForEvent(event, user) ==
  {r \in DOMAIN reports : reports[r].event = event /\ reports[r].user = user}

\* getReport with the event flag behaves idempotently for this event and user:
\* with no report stored for them it stores one drafted report with no
\* expenses, and with one stored it answers with it and stores nothing.
IdempotentFor(event, user) ==
  LET out == GetEventReportOut(user, event)
  IN /\ out.resp.code = 200
     /\ out.expenses = expenses
     /\ IF ReportsForEvent(event, user) = {}
          THEN /\ Len(out.reports) = Len(reports) + 1
               /\ SubSeq(out.reports, 1, Len(reports)) = reports
               /\ out.reports[Len(out.reports)].event = event
               /\ out.reports[Len(out.reports)].user = user
               /\ out.reports[Len(out.reports)].status = "drafted"
               /\ out.reports[Len(out.reports)].expenses = <<>>
          ELSE out.reports = reports

\* C20 as stated: for every event id and user.
C20_EventReportIdempotent ==
  \A event \in EventInputs : IdempotentFor(event, Submitter)

\* C20 amended: for every event that exists and lists the user among its
\* staff, the first getReport call with the event flag stores one drafted
\* report with no expenses, and every call made while a report is stored for
\* the event and the user stores nothing.
C20_StaffEventReportIdempotent ==
  \A event \in {ev \in EventIds : Submitter \in Events[ev].staffs} :
    IdempotentFor(event, Submitter)

\* The one report getReport has stored for the Admin event, which a further
\* call answers with.
C20_Witness ==
  /\ Len(reports) = 1
  /\ reports[1].event = "evA"
  /\ reports[1].status = "drafted"
  /\ reports[1].expenses = <<>>
  /\ GetEventReportOut(Submitter, "evA") = NoWrite(Resp(200, "found"))

\* The number a Rep# label carries.
RECURSIVE DecimalValue(_)
DecimalValue(digits) ==
  IF digits = <<>> THEN 0
  ELSE 10 * DecimalValue(SubSeq(digits, 1, Len(digits) - 1)) + (digits[Len(digits)] - 48)

LabelNumber(label) == DecimalValue(SubSeq(label, 5, Len(label)))

\* C13: whatever the interleaving of concurrent createReport calls, a report
\* created later carries a strictly greater Rep# label than every report
\* created earlier, so no two reports carry the same label.
C13_LabelsUniqueIncreasing ==
  \A i, j \in DOMAIN reports :
    i < j => LabelNumber(reports[i].reportId) < LabelNumber(reports[j].reportId)

\* The decisions that have answered with success and still hold their slot.
SucceededDecisions(id) ==
  {p \in Calls : /\ calls[p].op = "updateApproval"
                 /\ calls[p].pc = "done"
                 /\ calls[p].id = id
                 /\ calls[p].resp.code = 200}

\* C15: of two concurrent updateApproval calls on the same pending report at
\* most one succeeds.
C15_OneDecisionSucceeds ==
  \A id \in DOMAIN reports : Cardinality(SucceededDecisions(id)) <= 1

\* The records a step adds to a collection.
Added(after, before) ==
  {x \in BagToSet(after) : CopiesIn(x, after) > CopiesIn(x, before)}

\* C18: a Deduction is created only for a report whose status is already
\* reimbursed, and the notification of a decision or of a reimbursement only
\* once the report carries the status it announces.
C18_SideEffectsAfterStatus ==
  [][/\ \A d \in Added(deductions', deductions) :
          reports[d.report].status = "reimbursed"
     /\ \A n \in Added(notifications', notifications) :
          n.status \in {"approved", "rejected", "reimbursed"} =>
            reports[n.content].status = n.status]_vars

\* The decisions that have answered with the error of a failed notification
\* write and still hold their slot.
FailedNotifications ==
  {p \in Calls : /\ calls[p].op = "updateApproval"
                 /\ calls[p].pc = "done"
                 /\ calls[p].resp.code = 500}

\* C19: when the notification write of an updateApproval call fails, the
\* report keeps its new status and its expenses are still given their
\* approved or rejected status: none of them stays mapped.
C19_NotificationFailureNonFatal ==
  \A p \in FailedNotifications :
    /\ reports[calls[p].id].status # "pending"
    /\ \A e \in Range(reports[calls[p].id].expenses) : expenses[e].status # "mapped"

\* C21: after updateReport with patch list P on a report that stores S, the
\* report stores P, every expense of P not in S is mapped, every expense of S
\* not in P is back to draft, and the expenses in both keep their status; for
\* every P, the empty list included.
C21_UpdateReportDiff ==
  \A id \in DOMAIN reports, P \in ReportLists :
    LET out == UpdateReportOut(id, TRUE, P, Undefined)
        S == Range(reports[id].expenses)
    IN /\ out.reports[id].expenses = P
       /\ \A e \in Range(P) \ S : out.expenses[e].status = "mapped"
       /\ \A e \in S \ Range(P) : out.expenses[e].status = "draft"
       /\ \A e \in S \cap Range(P) : out.expenses[e].status = expenses[e].status

ExpenseStatuses == {"drafted", "mapped", "approved", "rejected", "reimbursed"}

\* C22: every expense's status is one of drafted, mapped, approved, rejected
\* and reimbursed.
C22_ExpenseStatusDomain ==
  \A e \in DOMAIN expenses : expenses[e].status \in ExpenseStatuses

\* C23: in a sequential run the labels of the labelled reports differ from one
\* another, the labels updateReport assigns included.
C23_LabelsDistinct ==
  \A i, j \in DOMAIN reports :
    (i # j /\ reports[i].reportId # Undefined) => reports[i].reportId # reports[j].reportId

\* Whether history h begins with history g.
IsPrefix(g, h) == Len(g) <= Len(h) /\ SubSeq(h, 1, Len(g)) = g

\* The successful decisions on a report, one notification to its owner each.
Decisions(id) ==
  CopiesIn([content |-> id, user |-> reports[id].user, status |-> "approved"], notifications)
    + CopiesIn([content |-> id, user |-> reports[id].user, status |-> "rejected"],
               notifications)

\* C26: the reason history of a report is append-only: createReport,
\* updateReport, reimburseReport and a failed updateApproval leave every
\* stored history as it is, a successful updateApproval appends one entry to
\* the history of its report, and a history is as long as the successful
\* decisions on its report are many.
C26_ReasonHistoryAppendOnly ==
  /\ \A id \in DOMAIN reports, hasExpenses \in BOOLEAN, P \in ReportLists,
        patchReason \in PatchReasons :
       UpdateReportOut(id, hasExpenses, P, patchReason).reports[id].reason
         = reports[id].reason
  /\ \A id \in DOMAIN reports, amount \in Amounts :
       ReimburseReportOut(id, amount, FinanceUser).reports[id].reason = reports[id].reason
  /\ \A id \in DOMAIN reports, action \in {"approve", "reject"}, supplied \in ExpenseLists,
        reason \in Reasons :
       LET out == UpdateApprovalOut(id, action, supplied, reason, ApproverOf(Submitter))
       IN out.reports[id].reason =
            IF out.resp.code = 200 THEN Append(reports[id].reason, reason)
            ELSE reports[id].reason
  /\ \A id \in DOMAIN reports : Len(reports[id].reason) = Decisions(id)

\* C28: a reimburse of a report that is already reimbursed creates no further
\* Deduction and no further notification.
C28_SecondReimburseAddsNothing ==
  \A id \in DOMAIN reports, amount \in Amounts :
    reports[id].status = "reimbursed" =>
      LET out == ReimburseReportOut(id, amount, FinanceUser)
      IN out.deductions = deductions /\ out.notifications = notifications

\* C29: the amounts of the month's approved and reimbursed reports sum to at
\* most the tier's totalAmount.
C29_ApprovedTotalWithinTier == ExistingTotalAmount <= Tier.totalAmount

\* The reports filed without an event that hold expense e.
PlainReportsOf(e) ==
  {r \in DOMAIN reports : reports[r].event = NoEvent /\ e \in Range(reports[r].expenses)}

\* C30: of concurrent createReport calls without an event whose lists share
\* an expense at most one succeeds: the expense is never held by two of
\* their reports.
C30_SharedExpenseOneReport ==
  \A e \in DOMAIN expenses : Cardinality(PlainReportsOf(e)) <= 1

\* The sum of an amount over a finite set of indices.
RECURSIVE SumOver(_, _)
SumOver(S, amountOf) ==
  IF S = {} THEN 0
  ELSE LET x == CHOOSE y \in S : TRUE IN amountOf[x] + SumOver(S \ {x}, amountOf)

\* The credits and debits the claim counts for user u.
CountedCredits(u) ==
  {i \in DOMAIN transactions :
     /\ transactions[i].receiver = u
     /\ transactions[i].status = "completed"
     /\ transactions[i].createdAt \in StartOfMonth..EndOfMonth}

CountedDebits(u) ==
  {d \in BagToSet(deductions) :
     /\ d.user = u
     /\ d.mode = "wallet"
     /\ d.status = TRUE
     /\ d.deductOn \in StartOfMonth..EndOfMonth}

\* C24: getWallet answers balanceAmount = totalAmount - totalExpenses, with
\* totalAmount the sum of the user's completed transactions of the month and
\* totalExpenses the sum of the user's wallet deductions with status true of
\* the month.
C24_WalletBalance ==
  wallet.code = 200 =>
    /\ wallet.totalAmount =
         SumOver(CountedCredits(Submitter),
                 [i \in DOMAIN transactions |-> transactions[i].amount])
    /\ wallet.totalExpenses =
         SumOver(CountedDebits(Submitter),
                 [d \in BagToSet(deductions) |-> d.amount * deductions[d]])
    /\ wallet.balanceAmount = wallet.totalAmount - wallet.totalExpenses

\* One completed transaction of 500 and wallet deductions of 120 and 30.
C24_Witness ==
  /\ wallet.code = 200
  /\ wallet.totalAmount = 500
  /\ wallet.totalExpenses = 150
  /\ wallet.balanceAmount = 350
  /\ Len(transactions) = 2
  /\ \E i \in DOMAIN transactions : transactions[i].status # "completed"

\* The entries of a list with a given mode, as a bag of (amount, date).
EntriesOf(entries, mode) ==
  LET ix == {i \in DOMAIN entries : entries[i].mode = mode}
      keys == {<<entries[i].amount, entries[i].date>> : i \in ix}
  IN [k \in keys |->
        Cardinality({i \in ix : <<entries[i].amount, entries[i].date>> = k})]

\* C25: the entry list of getWallet holds every counted credit and every
\* counted debit exactly once and is sorted by date.
C25_WalletEntriesSorted ==
  wallet.code = 200 =>
    /\ EntriesOf(wallet.expenses, "credit") =
         LET cs == CountedCredits(Submitter)
             keys == {<<transactions[i].amount, transactions[i].createdAt>> : i \in cs}
         IN [k \in keys |->
               Cardinality({i \in cs :
                              <<transactions[i].amount, transactions[i].createdAt>> = k})]
    /\ EntriesOf(wallet.expenses, "debit") =
         LET ds == CountedDebits(Submitter)
             keys == {<<d.amount, d.deductOn>> : d \in ds}
         IN [k \in keys |->
               SumOver({d \in ds : <<d.amount, d.deductOn>> = k},
                       [d \in ds |-> deductions[d]])]
    /\ \/ \A i, j \in DOMAIN wallet.expenses :
            i < j => wallet.expenses[i].date <= wallet.expenses[j].date
       \/ \A i, j \in DOMAIN wallet.expenses :
            i < j => wallet.expenses[i].date >= wallet.expenses[j].date

\* The items at positions 10(p-1)+1 to 10p of a collection taken newest first.
NewestFirstWindow(docs, p) ==
  LET n == Len(docs)
      first == 10 * (p - 1) + 1
      last == IF 10 * p < n THEN 10 * p ELSE n
  IN [i \in 1..(IF last >= first THEN last - first + 1 ELSE 0) |->
        docs[n + 1 - (first + i - 1)].id]

MatchingItems(user, type) ==
  CASE type = "reports" -> UserReports(user)
    [] type = "expenses" -> ExpensesOf(user)
    [] type = "notifications" -> NotificationsOf(user)
    [] type = "events" -> EventsOf(user)
    [] type = "approvals" -> ApprovalsOf(user)

\* C27: for every list type, page p holds at most 10 items, exactly those at
\* positions 10(p-1)+1 to 10p of the caller's matching items ordered newest
\* first by creation time.
C27_PagesNewestFirst ==
  \A user \in {Submitter, ApproverOf(Submitter)}, type \in ListTypes, p \in PageNos :
    \A out \in ListControllerOuts(user, type, p) :
      out.code = 200 =>
        /\ Len(out.data) <= 10
        /\ out.data = NewestFirstWindow(MatchingItems(user, type), p)

\* The same for the four lists served by a find query.
FindPagesNewestFirst ==
  \A user \in {Submitter, ApproverOf(Submitter)}, p \in PageNos :
    \A type \in ListTypes \ {"approvals"} :
      \A out \in ListControllerOuts(user, type, p) :
        out.code = 200 =>
          /\ Len(out.data) <= 10
          /\ out.data = NewestFirstWindow(MatchingItems(user, type), p)

\* C31: updateApproval on a report changes the status only of the expenses
\* attached to that report: an expense outside the report's list keeps its
\* status, whatever list the call supplies.
C31_DecisionTouchesOwnExpensesOnly ==
  \A id \in DOMAIN reports, action \in {"approve", "reject"}, supplied \in ExpenseLists,
     reason \in Reasons :
    LET out == UpdateApprovalOut(id, action, supplied, reason, ApproverOf(Submitter))
    IN \A e \in DOMAIN expenses :
         e \notin Range(reports[id].expenses) =>
           out.expenses[e].status = expenses[e].status

\* C33: createReport with a non-empty expense list and an event id that
\* resolves to no Event answers 404 and changes no expense status, creates no
\* report and no notification.
C33_UnknownEventNotFound ==
  \A expenseIds \in ReportLists \ {<<>>}, event \in EventInputs \ EventIds,
     inMonth \in ReportDates :
    LET out == CreateReportOut(Submitter, expenseIds, event, inMonth)
    IN /\ out.resp.code = 404
       /\ out.expenses = expenses
       /\ out.reports = reports
       /\ out.notifications = notifications

\* The frame half of the same: whatever the answer, nothing is written.
UnknownEventWritesNothing ==
  \A expenseIds \in ReportLists \ {<<>>}, event \in EventInputs \ EventIds,
     inMonth \in ReportDates :
    LET out == CreateReportOut(Submitter, expenseIds, event, inMonth)
    IN /\ out.resp.code = 500
       /\ out.expenses = expenses
       /\ out.reports = reports
       /\ out.notifications = notifications

\* The totals getWallet answers user u with on a collection of deductions.
WalletTotals(bag, u) ==
  {[totalAmount |-> GetWalletOut(u, found).totalAmount,
    totalExpenses |-> GetWalletOut(u, found).totalExpenses,
    balanceAmount |-> GetWalletOut(u, found).balanceAmount] :
     found \in FoundDeductionsIn(bag, u)}

\* C32: reimburseReport leaves the status of every expense and the getWallet
\* totals of every user as they were, and no sequence of createReport,
\* updateReport, updateApproval and reimburseReport calls leaves an expense
\* in status reimbursed.
C32_ReimburseFrame ==
  /\ \A id \in DOMAIN reports, amount \in Amounts :
       LET out == ReimburseReportOut(id, amount, FinanceUser)
       IN /\ \A e \in DOMAIN expenses : out.expenses[e].status = expenses[e].status
          /\ \A u \in {Submitter, ApproverOf(Submitter)} :
               WalletTotals(out.deductions, u) = WalletTotals(deductions, u)
  /\ \A e \in DOMAIN expenses : expenses[e].status # "reimbursed"

\* A report was reimbursed with a deduction of 50 on a ledger that holds a
\* completed advance and a counted wallet deduction, and the wallet asked for
\* afterwards answers with the ledger's totals.
C32_Witness ==
  /\ Len(reports) = 1
  /\ reports[1].status = "reimbursed"
  /\ \E d \in BagToSet(deductions) : d.mode = "bank" /\ d.amount = 50
  /\ \E d \in BagToSet(deductions) : d.mode = "wallet" /\ d.amount = 120
  /\ wallet.code = 200
  /\ wallet.totalAmount = 500
  /\ wallet.totalExpenses = 120
  /\ wallet.balanceAmount = 380
  /\ Len(wallet.expenses) = 2

====
